---- MODULE Spec2Model ----
(***************************************************************************)
(* Model of the probe finder: the proximity classifier, the               *)
(* manufacturer-data decoder, formatBleDevice and the acknowledgment       *)
(* decoder of utils/bleUtils.ts, the device list kept by the Home page     *)
(* (handleScanResult and the scan callback that feeds it), the scan        *)
(* session, the connection handlers and the useEffect cleanup of the Home  *)
(* page, readSerialNumber and the timed scan scanForBleDevices of          *)
(* utils/bleUtils.ts.                                                      *)
(*                                                                         *)
(* An async handler runs up to its first await in the step that starts     *)
(* it; it is then a pending task, named by the handler, the device and the *)
(* BleClient call it awaits, and it resumes in the step in which the       *)
(* wireless stack resolves or rejects that call.                           *)
(*                                                                         *)
(* JavaScript values are modelled as follows.  A string is a TLA+ string.  *)
(* A DataView is the sequence of its bytes (offset o is element o + 1).    *)
(* A value that may be undefined is a sequence of length 0 (undefined) or  *)
(* 1.  An object used as a map (manufacturerData, rssiDescriptions) is a   *)
(* sequence of DataViews in Object.keys order, or a function whose DOMAIN  *)
(* is the set of its keys.  A call that may throw yields a record with a   *)
(* field "threw".                                                          *)
(***************************************************************************)
EXTENDS Integers, Sequences, FiniteSets, Bags, TLC

VARIABLES
    devices,            \* useState devices: the device list, in order
    rssiDescriptions,   \* useState rssiDescriptions: deviceId -> description
    lastAd,             \* history: the scan result the stack delivered last
    repeated,           \* history: the last delivery repeated the one before
    rssiIn,             \* classifier run: the two readings classified
    rssiOut,            \* classifier run: their classifications
    mdIn,               \* decoder run: the manufacturerData to decode
    mdOut,              \* decoder run: the outcome of parseManufacturerData
    mdReads,            \* decoder run: the offsets getUint8 returned a byte for
    ackIn,              \* notification: the value the callback received last
    ackOut,             \* notification: the outcome of the callback for it
    isScanning,         \* useState isScanning
    rssiUpdateIntervalRef,      \* useRef: handle of the re-scan interval
    leScan,             \* wireless stack: a scan is delivering results
    advertised,         \* history: ids heard since the last handleStartScan
    stopped,            \* history: handleStopScan succeeded since the last
                        \* handleStartScan
    connectingDeviceId, \* useState connectingDeviceId
    connectedDeviceId,  \* useState connectedDeviceId
    batteryUpdateIntervalRef,   \* useRef: handle of the battery interval
    deviceServicesWithCharacteristics,  \* useState: ids with services listed
    batteryLevels,      \* useState batteryLevels: deviceId -> level
    links,              \* wireless stack: ids with an open link
    notifications,      \* wireless stack: deviceId -> subscriptions started
    tasks,              \* bag of the pending tasks (awaited BleClient calls)
    intervals,          \* the active setInterval timers
    handles,            \* the number of handles setInterval has issued
    lastReply,          \* history: the BleClient call that returned last
    mounted,            \* the Home component is mounted
    found,              \* scanForBleDevices: the local array devices
    settled             \* scanForBleDevices: how the promise settled last

registryVars == <<devices, rssiDescriptions, lastAd, repeated>>
classifierVars == <<rssiIn, rssiOut>>
codecVars == <<mdIn, mdOut, mdReads, ackIn, ackOut>>
scanVars == <<isScanning, rssiUpdateIntervalRef, leScan, advertised,
              stopped>>
connectionVars == <<connectingDeviceId, connectedDeviceId,
                    batteryUpdateIntervalRef,
                    deviceServicesWithCharacteristics, batteryLevels,
                    links, notifications>>
asyncVars == <<tasks, intervals, handles, lastReply>>
pageVars == <<scanVars, connectionVars, asyncVars>>
viewVars == <<mounted>>
timedScanVars == <<found, settled>>

vars == <<registryVars, classifierVars, codecVars, pageVars, viewVars,
          timedScanVars>>

----------------------------------------------------------------------------
(* Bounds of the model.                                                    *)

\* Number of distinct probes that advertise.
NumDevices == 2

\* Readings classified range over -MaxRssiMagnitude .. 0.
MaxRssiMagnitude == 100

\* Manufacturer payloads decoded have 0 .. MaxPayloadLen bytes.
MaxPayloadLen == 21

\* At most MaxPending async handlers are suspended at an await at a time.
MaxPending == 2

\* At most MaxIntervals setInterval timers are active at a time.
MaxIntervals == 2

\* setInterval issues at most MaxHandles handles in a run.
MaxHandles == 3

\* startNotifications is counted per device up to MaxSubscriptions.
MaxSubscriptions == 2

\* Notification values decoded have 0 .. MaxAckLen bytes.
MaxAckLen == 17

----------------------------------------------------------------------------
(* Optional values.                                                        *)

None == <<>>
Some(v) == <<v>>
IsDefined(o) == Len(o) = 1
ValueOf(o) == o[1]

----------------------------------------------------------------------------
(* utils/bleUtils.ts: the proximity classifier.                            *)

RSSI_THRESHOLDS ==
    << [max |-> -60, label |-> "VERY CLOSE", color |-> "green"],
       [max |-> -70, label |-> "NEAR",       color |-> "green"],
       [max |-> -80, label |-> "FAR",        color |-> "darkorange"],
       [max |-> -90, label |-> "VERY FAR",   color |-> "red"] >>

\* Variants of the predicate: a bound that is inclusive, and a comparison
\* written the wrong way round.
ThresholdMatchesInclusive(rssi, threshold) == rssi >= threshold.max
ThresholdMatchesFlipped(rssi, threshold) == rssi < threshold.max

\* The predicate of Array.prototype.find in getRssiDescription.
ThresholdMatches(rssi, threshold) == rssi > threshold.max

\* Array.prototype.find: index of the first matching threshold, 0 if none.
FindThreshold(rssi) ==
    LET hits == {i \in 1..Len(RSSI_THRESHOLDS) :
                    ThresholdMatches(rssi, RSSI_THRESHOLDS[i])}
    IN  IF hits = {} THEN 0
        ELSE CHOOSE i \in hits : \A j \in hits : i <= j

getRssiDescription(rssi) ==
    LET k == FindThreshold(rssi)
    IN  IF k # 0
        THEN [description |-> RSSI_THRESHOLDS[k].label,
              color |-> RSSI_THRESHOLDS[k].color]
        ELSE [description |-> "Unknown", color |-> "gray"]

----------------------------------------------------------------------------
(* utils/bleUtils.ts: the manufacturer-data decoder.                       *)

HexDigits == <<"0", "1", "2", "3", "4", "5", "6", "7",
               "8", "9", "a", "b", "c", "d", "e", "f">>

\* Number.prototype.toString(16) of a byte: no leading zero.
toString16(b) ==
    IF b < 16 THEN HexDigits[b + 1]
    ELSE HexDigits[(b \div 16) + 1] \o HexDigits[(b % 16) + 1]

\* String.prototype.padStart(2, '0').
RECURSIVE padStart2(_)
padStart2(s) == IF Len(s) >= 2 THEN s ELSE padStart2("0" \o s)

\* Variant: the byte rendered without padding.
ByteHexNoPad(b) == toString16(b)

\* toString(16).padStart(2, '0') of every byte.
ByteHexTable == [b \in 0..255 |-> padStart2(toString16(b))]

\* toString(16).padStart(2, '0') of one byte.
ByteHex(b) == ByteHexTable[b]

\* Variant: an unchecked read that yields 0 outside the view.
getUint8Unchecked(dataView, offset) ==
    IF offset >= 0 /\ offset < Len(dataView)
    THEN [threw |-> FALSE, value |-> dataView[offset + 1]]
    ELSE [threw |-> FALSE, value |-> 0]

\* DataView.prototype.getUint8: the byte at the offset, or a RangeError
\* when the offset is outside the view.
getUint8(dataView, offset) ==
    IF offset >= 0 /\ offset < Len(dataView)
    THEN [threw |-> FALSE, value |-> dataView[offset + 1]]
    ELSE [threw |-> TRUE, value |-> 0]

\* The offsets readLittleEndianUint32(offset) reads, in evaluation order.
Uint32Offsets(offset) == <<offset + 3, offset + 2, offset + 1, offset>>

readLittleEndianUint32(dataView, offset, omitPrefix) ==
    LET hexString == ByteHex(getUint8(dataView, offset + 3).value)
                     \o ByteHex(getUint8(dataView, offset + 2).value)
                     \o ByteHex(getUint8(dataView, offset + 1).value)
                     \o ByteHex(getUint8(dataView, offset).value)
    IN  IF omitPrefix THEN hexString ELSE "0x" \o hexString

\* Offset of batteryStateOfCharge.
BatteryOffset == 19

\* Every offset the decoder reads from one DataView, in evaluation order.
ReadOrder ==
    Uint32Offsets(0) \o Uint32Offsets(4) \o Uint32Offsets(8) \o <<BatteryOffset>>

\* Position in ReadOrder of the first read that throws on the view, or
\* Len(ReadOrder) + 1 when the view is decoded without a throw.
FirstThrow(dataView) ==
    LET bad == {i \in 1..Len(ReadOrder) :
                    getUint8(dataView, ReadOrder[i]).threw}
    IN  IF bad = {} THEN Len(ReadOrder) + 1
        ELSE CHOOSE i \in bad : \A j \in bad : i <= j

\* The decoder throws on a view as soon as one read throws.
ViewThrows(dataView) == FirstThrow(dataView) <= Len(ReadOrder)

\* The offsets getUint8 returned a byte for before the decoder returned or
\* threw.
OffsetsRead(dataView) ==
    {ReadOrder[i] : i \in 1..(FirstThrow(dataView) - 1)}

\* The body of the forEach in parseManufacturerData, for a view it decodes.
ParseView(dataView) ==
    [modelId |-> readLittleEndianUint32(dataView, 0, FALSE),
     probeId |-> readLittleEndianUint32(dataView, 4, FALSE),
     probeSerialNumber |-> readLittleEndianUint32(dataView, 8, TRUE),
     batteryStateOfCharge |-> getUint8(dataView, BatteryOffset).value]

\* Variant: the RangeError is caught and an empty array returned.
parseManufacturerDataLenient(manufacturerData) ==
    IF \E k \in 1..Len(manufacturerData) : ViewThrows(manufacturerData[k])
    THEN [threw |-> FALSE, value |-> <<>>]
    ELSE [threw |-> FALSE,
          value |-> [k \in 1..Len(manufacturerData) |->
                        ParseView(manufacturerData[k])]]

\* parseManufacturerData: one entry per key, or the RangeError of the first
\* view that is too short.
parseManufacturerData(manufacturerData) ==
    IF \E k \in 1..Len(manufacturerData) : ViewThrows(manufacturerData[k])
    THEN [threw |-> TRUE, value |-> <<>>]
    ELSE [threw |-> FALSE,
          value |-> [k \in 1..Len(manufacturerData) |->
                        ParseView(manufacturerData[k])]]

\* Reads done by parseManufacturerData, as <<key index, offset>>: the views
\* before the first that throws are read in full, that one up to the throw.
ParseReads(manufacturerData) ==
    UNION {{<<k, o>> : o \in OffsetsRead(manufacturerData[k])} :
            k \in {j \in 1..Len(manufacturerData) :
                    \A i \in 1..(j - 1) : ~ViewThrows(manufacturerData[i])}}

----------------------------------------------------------------------------
(* utils/bleUtils.ts: formatBleDevice.                                     *)

\* The table of probe ids and readable names.
probeIdToNameMap ==
    ("0x11001401" :> "L8-3") @@ ("0x11001402" :> "L13-5")
        @@ ("0x11001403" :> "C5-2")

\* formatBleDevice: the name and the serial number of the first entry of
\* parsedManufacturerData.  Without a first entry parsedData is undefined
\* and reading parsedData.probeId throws a TypeError.
formatBleDevice(device) ==
    IF Len(device.parsedManufacturerData) = 0
    THEN [threw |-> TRUE, value |-> ""]
    ELSE LET parsedData == device.parsedManufacturerData[1]
             probeName ==
                 IF parsedData.probeId \in DOMAIN probeIdToNameMap
                 THEN probeIdToNameMap[parsedData.probeId]
                 ELSE "Unknown Probe"
             serialNum == parsedData.probeSerialNumber
         IN  [threw |-> FALSE,
              value |-> "Probe: " \o probeName \o " " \o serialNum]

----------------------------------------------------------------------------
(* utils/bleUtils.ts: the acknowledgment decoder, the callback that        *)
(* subscribeToNotifications hands to BleClient.startNotifications.         *)

\* The operator << on a byte and a shift of at most 24: ToInt32(b * 2^n).
\* Bit 31 is the sign, so a byte of 128 or more shifted by 24 is negative.
ShiftLeft(b, n) ==
    IF n < 24 \/ b < 128 THEN b * 2^n
    ELSE (b - 256) * 2^n

\* The operator | on two 32-bit integers in two's complement.
RECURSIVE BitOr(_, _)
BitOr(x, y) ==
    IF x = 0 THEN y
    ELSE IF y = 0 THEN x
    ELSE IF x = -1 \/ y = -1 THEN -1
    ELSE 2 * BitOr(x \div 2, y \div 2)
         + (IF x % 2 = 1 \/ y % 2 = 1 THEN 1 ELSE 0)

\* String.fromCharCode of a byte: the string of that one code unit.
fromCharCode(code) == <<code>>

\* The offsets the callback reads, in evaluation order.
AckOffsets == <<2, 3, 4, 5, 6, 7, 8, 9, 10, 11, 12, 13, 14, 15>>

\* (getUint8(offset) << 0) | (getUint8(offset + 1) << 8).
AckUint16(dataView, offset) ==
    BitOr(ShiftLeft(getUint8(dataView, offset).value, 0),
          ShiftLeft(getUint8(dataView, offset + 1).value, 8))

\* (getUint8(4) << 0) | (getUint8(5) << 8) | (getUint8(6) << 16) |
\* (getUint8(7) << 24).
AckUint32(dataView, offset) ==
    BitOr(BitOr(BitOr(ShiftLeft(getUint8(dataView, offset).value, 0),
                      ShiftLeft(getUint8(dataView, offset + 1).value, 8)),
                ShiftLeft(getUint8(dataView, offset + 2).value, 16)),
          ShiftLeft(getUint8(dataView, offset + 3).value, 24))

\* The callback on a notification value: the fields it logs, or the
\* RangeError of the first read outside the view, which leaves the callback
\* before anything is logged.  Nothing catches it.
notificationCallback(value) ==
    IF \E i \in 1..Len(AckOffsets) : getUint8(value, AckOffsets[i]).threw
    THEN [threw |-> TRUE, logged |-> None]
    ELSE [threw |-> FALSE,
          logged |-> Some(
             [commandType |-> fromCharCode(getUint8(value, 2).value),
              commandCode |-> getUint8(value, 3).value,
              seqCommandNumber |-> AckUint32(value, 4),
              dataByteCount |-> AckUint16(value, 8),
              dataChecksum |-> AckUint16(value, 10),
              headerChecksum |-> AckUint16(value, 12),
              commandStatus |-> AckUint16(value, 14)])]

----------------------------------------------------------------------------
(* pages/Home.tsx: the device list.                                        *)

\* A setter of useState called with the value or the result of the updater
\* next: React drops the update of a component that has unmounted.
setState(current, next) == IF mounted THEN next ELSE current

\* Variant: a comparison that never matches.
findIndexNoMatch(prevDevices, deviceId) == -1

\* Array.prototype.findIndex on d.deviceId === deviceId: the 0-based index
\* of the first record with that id, or -1.
findIndex(prevDevices, deviceId) ==
    LET hits == {i \in 1..Len(prevDevices) :
                    prevDevices[i].deviceId = deviceId}
    IN  IF hits = {} THEN -1
        ELSE (CHOOSE i \in hits : \A j \in hits : i <= j) - 1

\* Variant: the update is written to every record of the list.
setDevicesUpdaterAll(prevDevices, deviceId, rssi, parsedDataArray) ==
    IF findIndex(prevDevices, deviceId) # -1
    THEN [i \in 1..Len(prevDevices) |->
            [prevDevices[i] EXCEPT !.rssi = rssi,
                                   !.parsedManufacturerData = parsedDataArray]]
    ELSE Append(prevDevices,
                [deviceId |-> deviceId, rssi |-> rssi,
                 parsedManufacturerData |-> parsedDataArray])

\* The updater passed to setDevices in handleScanResult.
setDevicesUpdater(prevDevices, deviceId, rssi, parsedDataArray) ==
    LET existingDeviceIndex == findIndex(prevDevices, deviceId)
    IN  IF existingDeviceIndex # -1
        THEN [prevDevices EXCEPT ![existingDeviceIndex + 1] =
                [@ EXCEPT !.rssi = rssi,
                          !.parsedManufacturerData = parsedDataArray]]
        ELSE Append(prevDevices,
                    [deviceId |-> deviceId, rssi |-> rssi,
                     parsedManufacturerData |-> parsedDataArray])

\* The updater passed to setRssiDescriptions in updateRssiDescription.
updateRssiDescription(prevDescriptions, deviceId, rssi) ==
    [id \in (DOMAIN prevDescriptions) \cup {deviceId} |->
        IF id = deviceId THEN getRssiDescription(rssi)
        ELSE prevDescriptions[id]]

\* handleScanResult: decode, then update the list and the description.  A
\* RangeError of the decoder leaves the handler before any state is set.
handleScanResult(result) ==
    LET deviceId == result.deviceId
        rssi == ValueOf(result.rssi)
        parsedDataArray ==
            parseManufacturerData(ValueOf(result.manufacturerData))
    IN  IF parsedDataArray.threw
        THEN UNCHANGED <<devices, rssiDescriptions>>
        ELSE /\ devices' =
                    setState(devices,
                             setDevicesUpdater(devices, deviceId, rssi,
                                               parsedDataArray.value))
             /\ rssiDescriptions' =
                    setState(rssiDescriptions,
                             updateRssiDescription(rssiDescriptions,
                                                   deviceId, rssi))

\* The guard of the callback startScan hands to requestLEScan.
CallbackForwards(result) ==
    IsDefined(result.rssi) /\ IsDefined(result.manufacturerData)

\* The stack delivers one scan result to the callback of startScan, which
\* forwards it to handleScanResult when it has an rssi and manufacturer data.
ScanCallback(result) ==
    /\ IF CallbackForwards(result)
       THEN handleScanResult(result)
       ELSE UNCHANGED <<devices, rssiDescriptions>>
    /\ lastAd' = Some(result)
    /\ repeated' = (lastAd = Some(result))
    /\ UNCHANGED classifierVars

----------------------------------------------------------------------------
(* Async handlers and timers.                                              *)

\* null, for a state or a ref that holds a device id or a timer handle.
null == None

\* The device field of a task that concerns no device.
NoDevice == ""

\* A handler suspended at an await: pc names the BleClient call awaited.
Task(fn, deviceId, pc) == [fn |-> fn, deviceId |-> deviceId, pc |-> pc]

Pending(task) == BagIn(task, tasks)

\* A handler reaches an await, or resumes from one.
Suspend(bag, task) == bag (+) SetToBag({task})
Resume(bag, task) == bag (-) SetToBag({task})

\* The stack resolved (ok) or rejected a call a task awaited.
Reply(task, ok) == Some([task |-> task, ok |-> ok])

\* The handle setInterval returns after it has issued the handles
\* 1..issued: the runtime counts its handles up and issues none twice, so
\* the handle of a cleared timer names no later timer.
NewHandle(issued) == issued + 1

\* setInterval: a timer with a handle never issued before.
setInterval(timers, issued, fn, deviceId) ==
    timers \cup {[handle |-> NewHandle(issued), fn |-> fn,
                  deviceId |-> deviceId]}

\* clearInterval of the handle a ref holds; the callers test the ref first.
clearInterval(timers, ref) ==
    IF IsDefined(ref) THEN {t \in timers : t.handle # ValueOf(ref)}
    ELSE timers

----------------------------------------------------------------------------
(* pages/Home.tsx: the scan session.                                       *)

\* handleStartScan up to the first await of startScan.  The button is
\* disabled while isScanning; the device list is left as it is.
handleStartScan ==
    /\ mounted
    /\ ~isScanning
    /\ BagCardinality(tasks) < MaxPending
    /\ isScanning' = TRUE
    /\ tasks' = Suspend(tasks, Task("handleStartScan", NoDevice, "initialize"))
    /\ advertised' = {}
    /\ stopped' = FALSE
    /\ lastReply' = None
    /\ UNCHANGED <<rssiUpdateIntervalRef, leScan, intervals, handles>>
    /\ UNCHANGED <<registryVars, classifierVars, codecVars, connectionVars,
                   viewVars, timedScanVars>>

\* The interval of handleStartScan fires: updateRssiForAllDevices up to the
\* first await of startScan.
updateRssiForAllDevices ==
    /\ \E t \in intervals : t.fn = "updateRssiForAllDevices"
    /\ BagCardinality(tasks) < MaxPending
    /\ tasks' = Suspend(tasks, Task("updateRssiForAllDevices", NoDevice,
                                    "initialize"))
    /\ lastReply' = None
    /\ UNCHANGED <<scanVars, intervals, handles>>
    /\ UNCHANGED <<registryVars, classifierVars, codecVars, connectionVars,
                   viewVars, timedScanVars>>

\* startScan after BleClient.initialize(): requestLEScan is called, or the
\* error is rethrown to the caller, whose catch sets isScanning to false.
InitializeReturns(fn, ok) ==
    LET task == Task(fn, NoDevice, "initialize")
    IN  /\ Pending(task)
        /\ IF ok
           THEN /\ tasks' = Suspend(Resume(tasks, task),
                                    Task(fn, NoDevice, "requestLEScan"))
                /\ UNCHANGED isScanning
           ELSE /\ tasks' = Resume(tasks, task)
                /\ isScanning' = setState(isScanning, FALSE)
        /\ lastReply' = Reply(task, ok)
        /\ UNCHANGED <<rssiUpdateIntervalRef, leScan, advertised, stopped,
                       intervals, handles>>
        /\ UNCHANGED <<registryVars, classifierVars, codecVars,
                       connectionVars, viewVars, timedScanVars>>

\* startScan after BleClient.requestLEScan(): on success the stack scans and
\* handleStartScan sets the re-scan interval; on failure the catch of the
\* caller sets isScanning to false.
RequestLEScanReturns(fn, ok) ==
    LET task == Task(fn, NoDevice, "requestLEScan")
    IN  /\ Pending(task)
        /\ tasks' = Resume(tasks, task)
        /\ IF ok
           THEN /\ leScan' = TRUE
                /\ UNCHANGED isScanning
                /\ IF fn = "handleStartScan"
                   THEN /\ Cardinality(intervals) < MaxIntervals
                        /\ handles < MaxHandles
                        /\ intervals' =
                              setInterval(intervals, handles,
                                          "updateRssiForAllDevices", NoDevice)
                        /\ rssiUpdateIntervalRef' = Some(NewHandle(handles))
                        /\ handles' = NewHandle(handles)
                   ELSE UNCHANGED <<intervals, handles,
                                    rssiUpdateIntervalRef>>
           ELSE /\ isScanning' = setState(isScanning, FALSE)
                /\ UNCHANGED <<leScan, intervals, handles,
                               rssiUpdateIntervalRef>>
        /\ lastReply' = Reply(task, ok)
        /\ UNCHANGED <<advertised, stopped>>
        /\ UNCHANGED <<registryVars, classifierVars, codecVars,
                       connectionVars, viewVars, timedScanVars>>

\* handleStopScan up to the await of stopScan.  The button is disabled
\* while not isScanning.
handleStopScan ==
    /\ mounted
    /\ isScanning
    /\ BagCardinality(tasks) < MaxPending
    /\ tasks' = Suspend(tasks, Task("handleStopScan", NoDevice, "stopLEScan"))
    /\ lastReply' = None
    /\ UNCHANGED <<scanVars, intervals, handles>>
    /\ UNCHANGED <<registryVars, classifierVars, codecVars, connectionVars,
                   viewVars, timedScanVars>>

\* handleStopScan after BleClient.stopLEScan(): on success isScanning is
\* set to false and the interval of the ref is cleared; the catch only logs.
StopLEScanReturns(ok) ==
    LET task == Task("handleStopScan", NoDevice, "stopLEScan")
    IN  /\ Pending(task)
        /\ tasks' = Resume(tasks, task)
        /\ IF ok
           THEN /\ leScan' = FALSE
                /\ isScanning' = setState(isScanning, FALSE)
                /\ intervals' = clearInterval(intervals,
                                              rssiUpdateIntervalRef)
                /\ rssiUpdateIntervalRef' = null
           ELSE UNCHANGED <<leScan, isScanning, intervals,
                            rssiUpdateIntervalRef>>
        /\ stopped' = (ok \/ stopped)
        /\ lastReply' = Reply(task, ok)
        /\ UNCHANGED <<advertised, handles>>
        /\ UNCHANGED <<registryVars, classifierVars, codecVars,
                       connectionVars, viewVars, timedScanVars>>

\* While the stack scans it delivers a scan result to the callback of
\* startScan.
Advertise(result) ==
    /\ leScan
    /\ ScanCallback(result)
    /\ advertised' = advertised \cup {result.deviceId}
    /\ lastReply' = None
    /\ UNCHANGED <<isScanning, rssiUpdateIntervalRef, leScan, stopped,
                   tasks, intervals, handles>>
    /\ UNCHANGED <<codecVars, connectionVars, viewVars, timedScanVars>>

----------------------------------------------------------------------------
(* pages/Home.tsx: connecting, polling the battery, disconnecting.         *)

\* The page renders the buttons of the devices of the list.
Listed(deviceId) == \E i \in 1..Len(devices) : devices[i].deviceId = deviceId

\* The value setConnectingDeviceId gets when handleConnectToDevice ends.
\* Variant: the id is kept.
connectingAtEndKept(current) == current
connectingAtEnd(current) == null

\* The number of handleConnectToDevice calls that have not ended.
ConnectsPending(bag) ==
    BagCardinality([t \in {u \in DOMAIN bag :
                              u.fn = "handleConnectToDevice"} |-> bag[t]])

\* handleConnectToDevice up to the await of BleClient.connect.  The Connect
\* button is rendered while the device is not the connected one and is
\* disabled while it is the connecting one.  A call is started only while
\* the timer it may set fits MaxIntervals and MaxHandles, so that the bounds
\* stop no call that has started.
handleConnectToDevice(deviceId) ==
    /\ mounted
    /\ Listed(deviceId)
    /\ connectedDeviceId # Some(deviceId)
    /\ connectingDeviceId # Some(deviceId)
    /\ BagCardinality(tasks) < MaxPending
    /\ Cardinality(intervals) + ConnectsPending(tasks) < MaxIntervals
    /\ handles + ConnectsPending(tasks) < MaxHandles
    /\ connectingDeviceId' = Some(deviceId)
    /\ tasks' = Suspend(tasks, Task("handleConnectToDevice", deviceId,
                                    "connect"))
    /\ lastReply' = None
    /\ UNCHANGED <<connectedDeviceId, batteryUpdateIntervalRef,
                   deviceServicesWithCharacteristics, batteryLevels, links,
                   notifications, intervals, handles>>
    /\ UNCHANGED <<registryVars, classifierVars, codecVars, scanVars,
                   viewVars, timedScanVars>>

\* After BleClient.connect: getDeviceServices is called, or the catch of
\* handleConnectToDevice logs and setConnectingDeviceId(null) ends it.
ConnectReturns(deviceId, ok) ==
    LET task == Task("handleConnectToDevice", deviceId, "connect")
    IN  /\ Pending(task)
        /\ IF ok
           THEN /\ links' = links \cup {deviceId}
                /\ tasks' = Suspend(Resume(tasks, task),
                                    Task("handleConnectToDevice", deviceId,
                                         "getServices"))
                /\ UNCHANGED connectingDeviceId
           ELSE /\ tasks' = Resume(tasks, task)
                /\ connectingDeviceId' =
                      setState(connectingDeviceId,
                               connectingAtEnd(connectingDeviceId))
                /\ UNCHANGED links
        /\ lastReply' = Reply(task, ok)
        /\ UNCHANGED <<connectedDeviceId, batteryUpdateIntervalRef,
                       deviceServicesWithCharacteristics, batteryLevels,
                       notifications, intervals, handles>>
        /\ UNCHANGED <<registryVars, classifierVars, codecVars, scanVars,
                   viewVars, timedScanVars>>

\* After BleClient.getServices: the services are stored and the initial
\* updateBatteryLevel is awaited, or the catch ends the handler.  The stack
\* rejects the call for a device without a link.
GetServicesReturns(deviceId, ok) ==
    LET task == Task("handleConnectToDevice", deviceId, "getServices")
    IN  /\ Pending(task)
        /\ ok => deviceId \in links
        /\ IF ok
           THEN /\ deviceServicesWithCharacteristics' =
                      setState(deviceServicesWithCharacteristics,
                               deviceServicesWithCharacteristics
                                   \cup {deviceId})
                /\ tasks' = Suspend(Resume(tasks, task),
                                    Task("handleConnectToDevice", deviceId,
                                         "read"))
                /\ UNCHANGED connectingDeviceId
           ELSE /\ tasks' = Resume(tasks, task)
                /\ connectingDeviceId' =
                      setState(connectingDeviceId,
                               connectingAtEnd(connectingDeviceId))
                /\ UNCHANGED deviceServicesWithCharacteristics
        /\ lastReply' = Reply(task, ok)
        /\ UNCHANGED <<connectedDeviceId, batteryUpdateIntervalRef,
                       batteryLevels, links, notifications, intervals,
                       handles>>
        /\ UNCHANGED <<registryVars, classifierVars, codecVars, scanVars,
                   viewVars, timedScanVars>>

\* The battery interval fires: updateBatteryLevel up to the await of
\* BleClient.read in getBatteryLevel.
updateBatteryLevel(deviceId) ==
    /\ \E t \in intervals :
          t.fn = "updateBatteryLevel" /\ t.deviceId = deviceId
    /\ BagCardinality(tasks) < MaxPending
    /\ tasks' = Suspend(tasks, Task("updateBatteryLevel", deviceId, "read"))
    /\ lastReply' = None
    /\ UNCHANGED <<intervals, handles>>
    /\ UNCHANGED <<registryVars, classifierVars, codecVars, scanVars,
                   connectionVars, viewVars, timedScanVars>>

\* The updater of setBatteryLevels in updateBatteryLevel.
setBatteryLevelsUpdater(prevLevels, deviceId, batteryLevel) ==
    [id \in (DOMAIN prevLevels) \cup {deviceId} |->
        IF id = deviceId THEN batteryLevel ELSE prevLevels[id]]

\* updateBatteryLevel after BleClient.read: the level is stored, or the
\* catch clears the interval of the ref.  fn is the caller: the interval,
\* or handleConnectToDevice, which then sets the interval and the connected
\* device whatever the outcome of the read.
BatteryReadReturns(fn, deviceId, ok, batteryLevel) ==
    LET task == Task(fn, deviceId, "read")
        timers == IF ok THEN intervals
                  ELSE clearInterval(intervals, batteryUpdateIntervalRef)
    IN  /\ Pending(task)
        /\ ok => deviceId \in links
        /\ tasks' = Resume(tasks, task)
        /\ batteryLevels' =
              IF ok
              THEN setState(batteryLevels,
                            setBatteryLevelsUpdater(batteryLevels, deviceId,
                                                    batteryLevel))
              ELSE batteryLevels
        /\ IF fn = "handleConnectToDevice"
           THEN /\ Cardinality(timers) < MaxIntervals
                /\ handles < MaxHandles
                /\ intervals' = setInterval(timers, handles,
                                            "updateBatteryLevel", deviceId)
                /\ batteryUpdateIntervalRef' = Some(NewHandle(handles))
                /\ handles' = NewHandle(handles)
                /\ connectedDeviceId' =
                      setState(connectedDeviceId, Some(deviceId))
                /\ connectingDeviceId' =
                      setState(connectingDeviceId,
                               connectingAtEnd(connectingDeviceId))
           ELSE /\ intervals' = timers
                /\ batteryUpdateIntervalRef' =
                      IF ok THEN batteryUpdateIntervalRef ELSE null
                /\ UNCHANGED <<handles, connectedDeviceId,
                               connectingDeviceId>>
        /\ lastReply' = Reply(task, ok)
        /\ UNCHANGED <<deviceServicesWithCharacteristics, links,
                       notifications>>
        /\ UNCHANGED <<registryVars, classifierVars, codecVars, scanVars,
                   viewVars, timedScanVars>>

\* The link of a device is closed: its subscriptions end with it.
CloseLink(deviceId) ==
    /\ links' = links \ {deviceId}
    /\ notifications' = [notifications EXCEPT ![deviceId] = 0]

\* handleDisconnectFromDevice up to the await of BleClient.disconnect.  The
\* Disconnect button is rendered for the connected device.
handleDisconnectFromDevice(deviceId) ==
    /\ mounted
    /\ Listed(deviceId)
    /\ connectedDeviceId = Some(deviceId)
    /\ BagCardinality(tasks) < MaxPending
    /\ tasks' = Suspend(tasks, Task("handleDisconnectFromDevice", deviceId,
                                    "disconnect"))
    /\ lastReply' = None
    /\ UNCHANGED <<intervals, handles>>
    /\ UNCHANGED <<registryVars, classifierVars, codecVars, scanVars,
                   connectionVars, viewVars, timedScanVars>>

\* After BleClient.disconnect: the connected device is set to null and the
\* interval of the ref is cleared; the catch only logs.
DisconnectReturns(deviceId, ok) ==
    LET task == Task("handleDisconnectFromDevice", deviceId, "disconnect")
    IN  /\ Pending(task)
        /\ tasks' = Resume(tasks, task)
        /\ IF ok
           THEN /\ CloseLink(deviceId)
                /\ connectedDeviceId' = setState(connectedDeviceId, null)
                /\ intervals' = clearInterval(intervals,
                                              batteryUpdateIntervalRef)
                /\ batteryUpdateIntervalRef' = null
           ELSE UNCHANGED <<links, notifications, connectedDeviceId,
                            intervals, batteryUpdateIntervalRef>>
        /\ lastReply' = Reply(task, ok)
        /\ UNCHANGED <<connectingDeviceId, deviceServicesWithCharacteristics,
                       batteryLevels, handles>>
        /\ UNCHANGED <<registryVars, classifierVars, codecVars, scanVars,
                   viewVars, timedScanVars>>

\* handleBeep up to the await of BleClient.write in sendBeep.  The Send BEEP
\* button is rendered for the connected device.
handleBeep(deviceId) ==
    /\ mounted
    /\ Listed(deviceId)
    /\ connectedDeviceId = Some(deviceId)
    /\ BagCardinality(tasks) < MaxPending
    /\ tasks' = Suspend(tasks, Task("handleBeep", deviceId, "write"))
    /\ lastReply' = None
    /\ UNCHANGED <<intervals, handles>>
    /\ UNCHANGED <<registryVars, classifierVars, codecVars, scanVars,
                   connectionVars, viewVars, timedScanVars>>

\* After BleClient.write, in sendBeep (fn handleBeep) or readSerialNumber:
\* the handler ends; an error is logged or rethrown.
WriteReturns(fn, deviceId, ok) ==
    LET task == Task(fn, deviceId, "write")
    IN  /\ Pending(task)
        /\ ok => deviceId \in links
        /\ tasks' = Resume(tasks, task)
        /\ lastReply' = Reply(task, ok)
        /\ UNCHANGED <<intervals, handles>>
        /\ UNCHANGED <<registryVars, classifierVars, codecVars, scanVars,
                       connectionVars, viewVars, timedScanVars>>

\* The link to a device drops.  BleClient.connect is called without an
\* onDisconnect callback, so no handler of the page runs.
LinkDrops(deviceId) ==
    /\ deviceId \in links
    /\ CloseLink(deviceId)
    /\ lastReply' = None
    /\ UNCHANGED <<connectingDeviceId, connectedDeviceId,
                   batteryUpdateIntervalRef,
                   deviceServicesWithCharacteristics, batteryLevels>>
    /\ UNCHANGED <<tasks, intervals, handles>>
    /\ UNCHANGED <<registryVars, classifierVars, codecVars, scanVars,
                   viewVars, timedScanVars>>

----------------------------------------------------------------------------
(* pages/Home.tsx: the cleanup of useEffect.                               *)

\* The value of isScanning the cleanup reads.  The effect has no
\* dependencies, so the cleanup is the closure of the first render, in
\* which isScanning is its initial value.
isScanningInCleanup == FALSE

\* The component unmounts and the cleanup runs: stopScan is called if the
\* isScanning of the closure is true, and the interval of
\* batteryUpdateIntervalRef is cleared.  rssiUpdateIntervalRef is not
\* touched.
unmount ==
    /\ mounted
    /\ mounted' = FALSE
    /\ tasks' = IF isScanningInCleanup
                THEN Suspend(tasks, Task("cleanup", NoDevice, "stopLEScan"))
                ELSE tasks
    /\ intervals' = clearInterval(intervals, batteryUpdateIntervalRef)
    /\ lastReply' = None
    /\ UNCHANGED <<scanVars, connectionVars, handles>>
    /\ UNCHANGED <<registryVars, classifierVars, codecVars, timedScanVars>>

----------------------------------------------------------------------------
(* utils/bleUtils.ts: readSerialNumber.                                    *)

\* The byte hexStringToDataView yields for the command of a handler.
CommandOf(fn) == IF fn = "readSerialNumber" THEN 33 ELSE 6

\* readSerialNumber up to the await of BleClient.startNotifications in
\* subscribeToNotifications.
readSerialNumber(deviceId) ==
    /\ BagCardinality(tasks) < MaxPending
    /\ tasks' = Suspend(tasks, Task("readSerialNumber", deviceId,
                                    "startNotifications"))
    /\ lastReply' = None
    /\ UNCHANGED <<intervals, handles>>
    /\ UNCHANGED <<registryVars, classifierVars, codecVars, scanVars,
                   connectionVars, viewVars, timedScanVars>>

\* After BleClient.startNotifications: the callback is subscribed and the
\* command is written, or the error is rethrown.
StartNotificationsReturns(deviceId, ok) ==
    LET task == Task("readSerialNumber", deviceId, "startNotifications")
    IN  /\ Pending(task)
        /\ ok => /\ deviceId \in links
                 /\ notifications[deviceId] < MaxSubscriptions
        /\ IF ok
           THEN /\ notifications' =
                      [notifications EXCEPT ![deviceId] = @ + 1]
                /\ tasks' = Suspend(Resume(tasks, task),
                                    Task("readSerialNumber", deviceId,
                                         "write"))
           ELSE /\ tasks' = Resume(tasks, task)
                /\ UNCHANGED notifications
        /\ lastReply' = Reply(task, ok)
        /\ UNCHANGED <<connectingDeviceId, connectedDeviceId,
                       batteryUpdateIntervalRef,
                       deviceServicesWithCharacteristics, batteryLevels,
                       links>>
        /\ UNCHANGED <<intervals, handles>>
        /\ UNCHANGED <<registryVars, classifierVars, codecVars, scanVars,
                   viewVars, timedScanVars>>

\* The stack delivers a notification of a device to the callback of a
\* subscription.  The callback only logs; a RangeError it throws goes to
\* the stack that called it, outside the try of subscribeToNotifications.
Notification(deviceId, value) ==
    /\ deviceId \in links
    /\ notifications[deviceId] > 0
    /\ ackIn' = Some(value)
    /\ ackOut' = Some(notificationCallback(value))
    /\ lastReply' = None
    /\ UNCHANGED <<mdIn, mdOut, mdReads, tasks, intervals, handles>>
    /\ UNCHANGED <<registryVars, classifierVars, scanVars, connectionVars,
                   viewVars, timedScanVars>>

----------------------------------------------------------------------------
(* utils/bleUtils.ts: scanForBleDevices, the timed scan.                   *)

\* A call of scanForBleDevices suspended at pc: a BleClient call it awaits,
\* or the setTimeout of scanDuration.
TimedScan(pc) == Task("scanForBleDevices", NoDevice, pc)

\* The promise of scanForBleDevices resolved with value, or rejected with
\* the error its catch rethrows.
Resolved(value) == Some([threw |-> FALSE, value |-> value])
Rejected == Some([threw |-> TRUE, value |-> <<>>])

\* The callback scanForBleDevices hands to requestLEScan: a result with an
\* rssi is pushed to the local array unless the array has its deviceId.
timedScanCallback(localDevices, result) ==
    IF /\ IsDefined(result.rssi)
       /\ ~\E i \in 1..Len(localDevices) :
              localDevices[i].deviceId = result.deviceId
    THEN Append(localDevices,
                [deviceId |-> result.deviceId, rssi |-> ValueOf(result.rssi),
                 manufacturerData |-> result.manufacturerData])
    ELSE localDevices

\* scanForBleDevices up to the await of BleClient.initialize, with its
\* local array empty.  The page that calls it disables its button while
\* the call runs, so a call starts when none is running.
scanForBleDevices ==
    /\ \A t \in BagToSet(tasks) : t.fn # "scanForBleDevices"
    /\ BagCardinality(tasks) < MaxPending
    /\ found' = <<>>
    /\ settled' = None
    /\ tasks' = Suspend(tasks, TimedScan("initialize"))
    /\ lastReply' = None
    /\ UNCHANGED <<intervals, handles>>
    /\ UNCHANGED <<registryVars, classifierVars, codecVars, scanVars,
                   connectionVars, viewVars>>

\* After BleClient.initialize: requestLEScan is called, or the catch logs
\* and rethrows.
TimedInitializeReturns(ok) ==
    LET task == TimedScan("initialize")
    IN  /\ Pending(task)
        /\ IF ok
           THEN /\ tasks' = Suspend(Resume(tasks, task),
                                    TimedScan("requestLEScan"))
                /\ UNCHANGED settled
           ELSE /\ tasks' = Resume(tasks, task)
                /\ settled' = Rejected
        /\ lastReply' = Reply(task, ok)
        /\ UNCHANGED <<found, intervals, handles>>
        /\ UNCHANGED <<registryVars, classifierVars, codecVars, scanVars,
                       connectionVars, viewVars>>

\* After BleClient.requestLEScan: the stack scans and the function waits
\* scanDuration in setTimeout, or the catch logs and rethrows.
TimedRequestLEScanReturns(ok) ==
    LET task == TimedScan("requestLEScan")
    IN  /\ Pending(task)
        /\ IF ok
           THEN /\ leScan' = TRUE
                /\ tasks' = Suspend(Resume(tasks, task),
                                    TimedScan("setTimeout"))
                /\ UNCHANGED settled
           ELSE /\ tasks' = Resume(tasks, task)
                /\ settled' = Rejected
                /\ UNCHANGED leScan
        /\ lastReply' = Reply(task, ok)
        /\ UNCHANGED <<isScanning, rssiUpdateIntervalRef, advertised,
                       stopped>>
        /\ UNCHANGED <<found, intervals, handles>>
        /\ UNCHANGED <<registryVars, classifierVars, codecVars,
                       connectionVars, viewVars>>

\* While the stack scans for the call it delivers a scan result to the
\* callback of scanForBleDevices.
TimedScanResult(result) ==
    /\ leScan
    /\ \E pc \in {"setTimeout", "stopLEScan"} : Pending(TimedScan(pc))
    /\ found' = timedScanCallback(found, result)
    /\ lastReply' = None
    /\ UNCHANGED <<settled, tasks, intervals, handles>>
    /\ UNCHANGED <<registryVars, classifierVars, codecVars, scanVars,
                   connectionVars, viewVars>>

\* The setTimeout of scanDuration elapses: BleClient.stopLEScan is called.
scanDurationElapses ==
    LET task == TimedScan("setTimeout")
    IN  /\ Pending(task)
        /\ tasks' = Suspend(Resume(tasks, task), TimedScan("stopLEScan"))
        /\ lastReply' = None
        /\ UNCHANGED <<found, settled, intervals, handles>>
        /\ UNCHANGED <<registryVars, classifierVars, codecVars, scanVars,
                       connectionVars, viewVars>>

\* After BleClient.stopLEScan: the stack stops scanning and the promise
\* resolves with the local array, or the catch logs and rethrows.
TimedStopLEScanReturns(ok) ==
    LET task == TimedScan("stopLEScan")
    IN  /\ Pending(task)
        /\ tasks' = Resume(tasks, task)
        /\ IF ok
           THEN /\ leScan' = FALSE
                /\ settled' = Resolved(found)
           ELSE /\ settled' = Rejected
                /\ UNCHANGED leScan
        /\ lastReply' = Reply(task, ok)
        /\ UNCHANGED <<isScanning, rssiUpdateIntervalRef, advertised,
                       stopped>>
        /\ UNCHANGED <<found, intervals, handles>>
        /\ UNCHANGED <<registryVars, classifierVars, codecVars,
                       connectionVars, viewVars>>

----------------------------------------------------------------------------
(* Inputs.                                                                 *)

\* Identifiers the stack assigns to the probes in range.
DeviceId(i) == "d" \o HexDigits[i + 1]
DeviceIds == {DeviceId(i) : i \in 1..NumDevices}

\* The payload of the comments in parseManufacturerData: model 0x11002300,
\* probe 0x11001401, serial 11001650, battery 0x5A.
ExamplePayload ==
    <<0, 35, 0, 17,  1, 20, 0, 17,  80, 22, 0, 17,
      0, 0, 0, 0, 0, 0, 0,  90>>

\* The example payload cut or zero-extended to len bytes, with byte b at
\* offset k.
PayloadOf(len, k, b) ==
    [i \in 1..len |->
        IF i - 1 = k THEN b
        ELSE IF i <= Len(ExamplePayload) THEN ExamplePayload[i] ELSE 0]

\* A second probe: probe id 0x11001402, battery byte 200.
OtherPayload ==
    [PayloadOf(Len(ExamplePayload), 4, 2) EXCEPT ![BatteryOffset + 1] = 200]

\* The example payload without its last byte.
ShortPayload == SubSeq(ExamplePayload, 1, Len(ExamplePayload) - 1)

\* Readings and manufacturer data the probes advertise in the page model.
RssiSamples == {-58, -82, -91}
MdSamples == {<<ExamplePayload>>, <<OtherPayload>>, <<ShortPayload>>}

\* Scan results of the page model: every reading with every manufacturer
\* data, one result without rssi and one without manufacturer data.
ScanResults ==
    [deviceId : DeviceIds,
     rssi : {Some(r) : r \in RssiSamples},
     manufacturerData : {Some(m) : m \in MdSamples}]
    \cup [deviceId : DeviceIds, rssi : {None},
          manufacturerData : {Some(<<ExamplePayload>>)}]
    \cup [deviceId : DeviceIds, rssi : {Some(-58)},
          manufacturerData : {None}]

\* Bytes placed in the payloads of the decoder runs.
SampleBytes == {0, 1, 9, 10, 15, 16, 90, 100, 101, 127, 128, 171, 255}

CodecPayloads ==
    {PayloadOf(len, k, b) :
        len \in 0..MaxPayloadLen, k \in 0..BatteryOffset, b \in SampleBytes}

\* Manufacturer data of the decoder runs: no key, one key, two keys.
CodecInputs ==
    {<<>>} \cup {<<p>> : p \in CodecPayloads}
           \cup {<<ExamplePayload, p>> : p \in CodecPayloads}
           \cup {<<p, OtherPayload>> : p \in CodecPayloads}

RssiInputs == (-MaxRssiMagnitude)..0

\* An acknowledgment of the command 0x21: type "A", sequence number 1,
\* two data bytes, checksums 3 and 4, status 0.
ExampleAck == <<0, 0, 65, 33,  1, 0, 0, 0,  2, 0,  3, 0,  4, 0,  0, 0>>

\* The example acknowledgment cut or zero-extended to len bytes, with byte b
\* at offset k.
AckOf(len, k, b) ==
    [i \in 1..len |->
        IF i - 1 = k THEN b
        ELSE IF i <= Len(ExampleAck) THEN ExampleAck[i] ELSE 0]

\* Bytes at the edges of the sign bit.
EdgeBytes == {0, 1, 127, 128, 255}

\* Notification values of the decoder runs: every length with one byte
\* varied, every combination of edge bytes in the sequence number, and
\* every combination of edge bytes in each 16-bit field.
AckInputs ==
    {AckOf(len, k, b) :
        len \in 0..MaxAckLen, k \in 0..(Len(ExampleAck) - 1),
        b \in SampleBytes}
    \cup {[ExampleAck EXCEPT ![5] = b[1], ![6] = b[2], ![7] = b[3],
                             ![8] = b[4]] :
            b \in [1..4 -> EdgeBytes]}
    \cup {[ExampleAck EXCEPT ![k + 1] = lo, ![k + 2] = hi] :
            k \in {8, 10, 12, 14}, lo \in EdgeBytes, hi \in EdgeBytes}

\* The probes of the scan-session and connection models.
Probes == {DeviceId(1), DeviceId(2)}

\* Scan results of the scan-session model: each probe advertises the
\* example payload at one reading.
SessionResults ==
    [deviceId : Probes, rssi : {Some(-58)},
     manufacturerData : {Some(<<ExamplePayload>>)}]

\* The example acknowledgment without its last byte.
ShortAck == SubSeq(ExampleAck, 1, Len(ExampleAck) - 1)

\* Notification values the probes send in the readSerialNumber model.
SessionAcks == {ExampleAck, ShortAck}

\* Battery bytes BleClient.read returns.
BatteryReadings == {90}

\* Values of ok: the stack resolves or rejects a call.
Outcomes == BOOLEAN

----------------------------------------------------------------------------
(* The page: any sequence of scan results.                                 *)

\* The page as mounted, before any handler has run, and the stack idle.
InitPage ==
    /\ isScanning = FALSE
    /\ rssiUpdateIntervalRef = null
    /\ leScan = FALSE
    /\ advertised = {}
    /\ stopped = FALSE
    /\ connectingDeviceId = null
    /\ connectedDeviceId = null
    /\ batteryUpdateIntervalRef = null
    /\ deviceServicesWithCharacteristics = {}
    /\ batteryLevels = <<>>
    /\ links = {}
    /\ notifications = [id \in DeviceIds |-> 0]
    /\ tasks = EmptyBag
    /\ intervals = {}
    /\ handles = 0
    /\ lastReply = None
    /\ mounted = TRUE
    /\ found = <<>>
    /\ settled = None

Init ==
    /\ devices = <<>>
    /\ rssiDescriptions = <<>>
    /\ lastAd = None
    /\ repeated = FALSE
    /\ rssiIn = None
    /\ rssiOut = None
    /\ mdIn = None
    /\ mdOut = None
    /\ mdReads = {}
    /\ ackIn = None
    /\ ackOut = None
    /\ InitPage

Next ==
    \E result \in ScanResults :
        ScanCallback(result)
        /\ UNCHANGED <<codecVars, pageVars, viewVars, timedScanVars>>

Spec == Init /\ [][Next]_vars

(* The decoder: the first scan result a fresh page receives, over every    *)
(* manufacturer data of CodecInputs.                                       *)

InitCodec ==
    /\ devices = <<>>
    /\ rssiDescriptions = <<>>
    /\ lastAd = None
    /\ repeated = FALSE
    /\ rssiIn = None
    /\ rssiOut = None
    /\ mdIn \in {Some(m) : m \in CodecInputs}
    /\ mdOut = None
    /\ mdReads = {}
    /\ ackIn = None
    /\ ackOut = None
    /\ InitPage

\* The first scan result carries mdIn; the outcome of the decoder and the
\* reads it made are recorded.
FirstScanResult ==
    /\ lastAd = None
    /\ \E id \in DeviceIds, r \in RssiSamples :
          ScanCallback([deviceId |-> id, rssi |-> Some(r),
                        manufacturerData |-> mdIn])
    /\ mdOut' = Some(parseManufacturerData(ValueOf(mdIn)))
    /\ mdReads' = ParseReads(ValueOf(mdIn))
    /\ UNCHANGED <<mdIn, ackIn, ackOut, pageVars, viewVars, timedScanVars>>

NextCodec == FirstScanResult

SpecCodec == InitCodec /\ [][NextCodec]_vars

(* The classifier: two readings of RssiInputs.                             *)

InitClassifier ==
    /\ devices = <<>>
    /\ rssiDescriptions = <<>>
    /\ lastAd = None
    /\ repeated = FALSE
    /\ rssiIn \in {Some(<<a, b>>) : a \in RssiInputs, b \in RssiInputs}
    /\ rssiOut = None
    /\ mdIn = None
    /\ mdOut = None
    /\ mdReads = {}
    /\ ackIn = None
    /\ ackOut = None
    /\ InitPage

Classify ==
    /\ rssiOut = None
    /\ rssiOut' = Some(<<getRssiDescription(ValueOf(rssiIn)[1]),
                         getRssiDescription(ValueOf(rssiIn)[2])>>)
    /\ UNCHANGED <<rssiIn, registryVars, codecVars, pageVars, viewVars,
                   timedScanVars>>

NextClassifier == Classify

SpecClassifier == InitClassifier /\ [][NextClassifier]_vars

(* The acknowledgment decoder: one notification value of AckInputs handed  *)
(* to the callback.                                                        *)

InitAck ==
    /\ devices = <<>>
    /\ rssiDescriptions = <<>>
    /\ lastAd = None
    /\ repeated = FALSE
    /\ rssiIn = None
    /\ rssiOut = None
    /\ mdIn = None
    /\ mdOut = None
    /\ mdReads = {}
    /\ ackIn \in {Some(value) : value \in AckInputs}
    /\ ackOut = None
    /\ InitPage

\* The callback runs on ackIn; its outcome is recorded.
Notified ==
    /\ ackOut = None
    /\ ackOut' = Some(notificationCallback(ValueOf(ackIn)))
    /\ UNCHANGED <<ackIn, mdIn, mdOut, mdReads>>
    /\ UNCHANGED <<registryVars, classifierVars, pageVars, viewVars,
                   timedScanVars>>

NextAck == Notified

SpecAck == InitAck /\ [][NextAck]_vars

(* The scan session: Start Scan, Stop Scan, the re-scan interval, the      *)
(* replies of the stack and the scan results it delivers.                  *)

NextScan ==
    \/ handleStartScan
    \/ updateRssiForAllDevices
    \/ \E fn \in {"handleStartScan", "updateRssiForAllDevices"},
          ok \in Outcomes : InitializeReturns(fn, ok)
    \/ \E fn \in {"handleStartScan", "updateRssiForAllDevices"},
          ok \in Outcomes : RequestLEScanReturns(fn, ok)
    \/ handleStopScan
    \/ \E ok \in Outcomes : StopLEScanReturns(ok)
    \/ \E result \in SessionResults : Advertise(result)

SpecScan == Init /\ [][NextScan]_vars

(* Connections: the page after a scan session in which every probe         *)
(* advertised once and which was stopped; Connect, Disconnect, Send BEEP,  *)
(* the battery interval, the replies of the stack and the loss of a link.  *)

\* The list and the descriptions after the first n probes advertised.
RECURSIVE DevicesAfter(_)
DevicesAfter(n) ==
    IF n = 0 THEN <<>>
    ELSE setDevicesUpdater(DevicesAfter(n - 1), DeviceId(n), -58,
                           parseManufacturerData(<<ExamplePayload>>).value)

RECURSIVE DescriptionsAfter(_)
DescriptionsAfter(n) ==
    IF n = 0 THEN <<>>
    ELSE updateRssiDescription(DescriptionsAfter(n - 1), DeviceId(n), -58)

InitConnection ==
    /\ devices = DevicesAfter(Cardinality(Probes))
    /\ rssiDescriptions = DescriptionsAfter(Cardinality(Probes))
    /\ lastAd = Some([deviceId |-> DeviceId(Cardinality(Probes)),
                      rssi |-> Some(-58),
                      manufacturerData |-> Some(<<ExamplePayload>>)])
    /\ repeated = FALSE
    /\ rssiIn = None
    /\ rssiOut = None
    /\ mdIn = None
    /\ mdOut = None
    /\ mdReads = {}
    /\ ackIn = None
    /\ ackOut = None
    /\ isScanning = FALSE
    /\ rssiUpdateIntervalRef = null
    /\ leScan = FALSE
    /\ advertised = Probes
    /\ stopped = TRUE
    /\ connectingDeviceId = null
    /\ connectedDeviceId = null
    /\ batteryUpdateIntervalRef = null
    /\ deviceServicesWithCharacteristics = {}
    /\ batteryLevels = <<>>
    /\ links = {}
    /\ notifications = [id \in DeviceIds |-> 0]
    /\ tasks = EmptyBag
    /\ intervals = {}
    /\ handles = 1
    /\ lastReply = Reply(Task("handleStopScan", NoDevice, "stopLEScan"), TRUE)
    /\ mounted = TRUE
    /\ found = <<>>
    /\ settled = None

NextConnection ==
    \E deviceId \in Probes :
        \/ handleConnectToDevice(deviceId)
        \/ \E ok \in Outcomes : ConnectReturns(deviceId, ok)
        \/ \E ok \in Outcomes : GetServicesReturns(deviceId, ok)
        \/ updateBatteryLevel(deviceId)
        \/ \E fn \in {"handleConnectToDevice", "updateBatteryLevel"},
              ok \in Outcomes, batteryLevel \in BatteryReadings :
                BatteryReadReturns(fn, deviceId, ok, batteryLevel)
        \/ handleDisconnectFromDevice(deviceId)
        \/ \E ok \in Outcomes : DisconnectReturns(deviceId, ok)
        \/ handleBeep(deviceId)
        \/ \E ok \in Outcomes : WriteReturns("handleBeep", deviceId, ok)
        \/ LinkDrops(deviceId)

SpecConnection == InitConnection /\ [][NextConnection]_vars

(* Teardown: the page from its mount, with the scan session and the        *)
(* connection of one probe, through the unmount of the component and       *)
(* after it: the cleanup cancels no pending call, so the stack goes on     *)
(* replying, the timers left go on firing and the stack goes on            *)
(* delivering scan results, while no button is left to click.              *)

\* The probe in range of the teardown model.
TeardownProbe == DeviceId(1)

NextTeardown ==
    \/ handleStartScan
    \/ updateRssiForAllDevices
    \/ \E fn \in {"handleStartScan", "updateRssiForAllDevices"},
          ok \in Outcomes : InitializeReturns(fn, ok)
    \/ \E fn \in {"handleStartScan", "updateRssiForAllDevices"},
          ok \in Outcomes : RequestLEScanReturns(fn, ok)
    \/ handleStopScan
    \/ \E ok \in Outcomes : StopLEScanReturns(ok)
    \/ \E result \in SessionResults :
          result.deviceId = TeardownProbe /\ Advertise(result)
    \/ handleConnectToDevice(TeardownProbe)
    \/ \E ok \in Outcomes : ConnectReturns(TeardownProbe, ok)
    \/ \E ok \in Outcomes : GetServicesReturns(TeardownProbe, ok)
    \/ updateBatteryLevel(TeardownProbe)
    \/ \E fn \in {"handleConnectToDevice", "updateBatteryLevel"},
          ok \in Outcomes, batteryLevel \in BatteryReadings :
            BatteryReadReturns(fn, TeardownProbe, ok, batteryLevel)
    \/ handleDisconnectFromDevice(TeardownProbe)
    \/ \E ok \in Outcomes : DisconnectReturns(TeardownProbe, ok)
    \/ LinkDrops(TeardownProbe)
    \/ unmount

SpecTeardown == Init /\ [][NextTeardown]_vars

(* Connecting: Connect, Disconnect, the replies of the stack to them and   *)
(* the loss of a link, where every BleClient call that                     *)
(* handleConnectToDevice awaits is resolved or rejected in the end.  The   *)
(* battery interval and Send BEEP, which set neither connectingDeviceId    *)
(* nor connectedDeviceId, are left to SpecConnection.                      *)

NextConnecting ==
    \E deviceId \in Probes :
        \/ handleConnectToDevice(deviceId)
        \/ \E ok \in Outcomes : ConnectReturns(deviceId, ok)
        \/ \E ok \in Outcomes : GetServicesReturns(deviceId, ok)
        \/ \E ok \in Outcomes, batteryLevel \in BatteryReadings :
              BatteryReadReturns("handleConnectToDevice", deviceId, ok,
                                 batteryLevel)
        \/ handleDisconnectFromDevice(deviceId)
        \/ \E ok \in Outcomes : DisconnectReturns(deviceId, ok)
        \/ LinkDrops(deviceId)

ConnectCallsReturn ==
    \A deviceId \in Probes :
        /\ WF_vars(\E ok \in Outcomes : ConnectReturns(deviceId, ok))
        /\ WF_vars(\E ok \in Outcomes : GetServicesReturns(deviceId, ok))
        /\ WF_vars(\E ok \in Outcomes, batteryLevel \in BatteryReadings :
                      BatteryReadReturns("handleConnectToDevice", deviceId,
                                         ok, batteryLevel))

SpecConnectionFair ==
    InitConnection /\ [][NextConnecting]_vars /\ ConnectCallsReturn

(* readSerialNumber: the page after a Connect to every probe that opened   *)
(* the link and ended at a rejected getServices; readSerialNumber is then  *)
(* called for the probes, the probes notify, and links drop.               *)

InitSerial ==
    /\ devices = DevicesAfter(NumDevices)
    /\ rssiDescriptions = DescriptionsAfter(NumDevices)
    /\ lastAd = Some([deviceId |-> DeviceId(NumDevices), rssi |-> Some(-58),
                      manufacturerData |-> Some(<<ExamplePayload>>)])
    /\ repeated = FALSE
    /\ rssiIn = None
    /\ rssiOut = None
    /\ mdIn = None
    /\ mdOut = None
    /\ mdReads = {}
    /\ ackIn = None
    /\ ackOut = None
    /\ isScanning = FALSE
    /\ rssiUpdateIntervalRef = null
    /\ leScan = FALSE
    /\ advertised = DeviceIds
    /\ stopped = TRUE
    /\ connectingDeviceId = null
    /\ connectedDeviceId = null
    /\ batteryUpdateIntervalRef = null
    /\ deviceServicesWithCharacteristics = {}
    /\ batteryLevels = <<>>
    /\ links = DeviceIds
    /\ notifications = [id \in DeviceIds |-> 0]
    /\ tasks = EmptyBag
    /\ intervals = {}
    /\ handles = 1
    /\ lastReply = Reply(Task("handleConnectToDevice", DeviceId(NumDevices),
                              "getServices"), FALSE)
    /\ mounted = TRUE
    /\ found = <<>>
    /\ settled = None

NextSerial ==
    \E deviceId \in DeviceIds :
        \/ readSerialNumber(deviceId)
        \/ \E ok \in Outcomes : StartNotificationsReturns(deviceId, ok)
        \/ \E ok \in Outcomes : WriteReturns("readSerialNumber", deviceId, ok)
        \/ \E value \in SessionAcks : Notification(deviceId, value)
        \/ LinkDrops(deviceId)

SpecSerial == InitSerial /\ [][NextSerial]_vars

(* The timed scan: calls of scanForBleDevices on an idle stack, the        *)
(* replies of the stack, the scan results it delivers and the end of the   *)
(* wait.                                                                   *)

NextTimedScan ==
    \/ scanForBleDevices
    \/ \E ok \in Outcomes : TimedInitializeReturns(ok)
    \/ \E ok \in Outcomes : TimedRequestLEScanReturns(ok)
    \/ \E result \in ScanResults : TimedScanResult(result)
    \/ scanDurationElapses
    \/ \E ok \in Outcomes : TimedStopLEScanReturns(ok)

SpecTimedScan == Init /\ [][NextTimedScan]_vars

----------------------------------------------------------------------------
(* Properties of the classifier, under SpecClassifier.                     *)

\* The bands of the threshold table, written out.
BandLabel(rssi) ==
    IF rssi > -60 THEN "VERY CLOSE"
    ELSE IF rssi > -70 THEN "NEAR"
    ELSE IF rssi > -80 THEN "FAR"
    ELSE IF rssi > -90 THEN "VERY FAR"
    ELSE "Unknown"

\* C5: getRssiDescription returns the first table entry whose bound the
\* reading strictly exceeds: above -60 VERY CLOSE, (-70, -60] NEAR,
\* (-80, -70] FAR, (-90, -80] VERY FAR, at or below -90 Unknown with the
\* gray severity; the boundaries -60, -70, -80, -90 fall in the weaker band.
C5_ThresholdBands ==
    IsDefined(rssiOut) =>
        \A n \in 1..2 :
            LET r == ValueOf(rssiIn)[n]
                d == ValueOf(rssiOut)[n]
            IN  /\ d.description = BandLabel(r)
                /\ (r <= -90 => d = [description |-> "Unknown",
                                     color |-> "gray"])
                /\ (r = -59 => d.description = "VERY CLOSE")
                /\ (r \in {-60, -65} => d.description = "NEAR")
                /\ (r \in {-70, -75} => d.description = "FAR")
                /\ (r \in {-80, -85} => d.description = "VERY FAR")
                /\ (r \in {-90, -95} => d.description = "Unknown")

\* C5 witness: the boundary readings -60 and -90 have been classified.
C5_Witness ==
    /\ IsDefined(rssiOut)
    /\ ValueOf(rssiIn) = <<-60, -90>>
    /\ ValueOf(rssiOut)[1].description = "NEAR"
    /\ ValueOf(rssiOut)[2].description = "Unknown"

\* Strength of a label, strongest highest.
LabelRank(label) ==
    CASE label = "VERY CLOSE" -> 4
      [] label = "NEAR" -> 3
      [] label = "FAR" -> 2
      [] label = "VERY FAR" -> 1
      [] OTHER -> 0

Labels == {"VERY CLOSE", "NEAR", "FAR", "VERY FAR", "Unknown"}

\* C6 as stated: every reading gets a label, and a strictly stronger reading
\* gets a strictly stronger label (never a weaker or an equal one).
C6_StrictlyMonotonic ==
    IsDefined(rssiOut) =>
        LET r == ValueOf(rssiIn)
            d == ValueOf(rssiOut)
        IN  /\ d[1].description \in Labels
            /\ d[2].description \in Labels
            /\ (r[1] > r[2] =>
                    LabelRank(d[1].description) > LabelRank(d[2].description))

\* C6 amended: every reading gets a label, and a strictly stronger reading
\* never gets a weaker label (two readings of one band get the same label).
C6_Monotonic ==
    IsDefined(rssiOut) =>
        LET r == ValueOf(rssiIn)
            d == ValueOf(rssiOut)
        IN  /\ d[1].description \in Labels
            /\ d[2].description \in Labels
            /\ (r[1] > r[2] =>
                    LabelRank(d[1].description) >= LabelRank(d[2].description))

\* C6 witness: a stronger and a weaker reading of the same band, and so of
\* the same label, have been classified.
C6_Witness ==
    /\ IsDefined(rssiOut)
    /\ ValueOf(rssiIn) = <<-58, -59>>
    /\ ValueOf(rssiOut)[1].description = ValueOf(rssiOut)[2].description

----------------------------------------------------------------------------
(* Properties of the decoder, under SpecCodec.                             *)

\* Length below which a payload lacks the battery byte.
MinPayloadLen == BatteryOffset + 1

LowerHexDigits == {HexDigits[n] : n \in 1..Len(HexDigits)}

\* Value of a two-digit lowercase hex string, -1 if it is not one.
HexPairValue(str) ==
    IF /\ Len(str) = 2
       /\ SubSeq(str, 1, 1) \in LowerHexDigits
       /\ SubSeq(str, 2, 2) \in LowerHexDigits
    THEN 16 * ((CHOOSE n \in 1..16 : HexDigits[n] = SubSeq(str, 1, 1)) - 1)
         + ((CHOOSE n \in 1..16 : HexDigits[n] = SubSeq(str, 2, 2)) - 1)
    ELSE -1

\* An 8-digit hex string is the little-endian rendering of the four bytes of
\* the view from the offset: the byte at offset + 3 comes first.
IsLittleEndianHex(str, dataView, offset) ==
    /\ Len(str) = 8
    /\ \A n \in 0..3 :
          HexPairValue(SubSeq(str, 2 * n + 1, 2 * n + 2))
              = dataView[offset + 3 - n + 1]

\* C7: every payload of at least 20 bytes decodes, with modelId, probeId and
\* serial number the little-endian values of bytes 0-3, 4-7 and 8-11 (the
\* ids with the 0x prefix, the serial number as exactly 8 lowercase hex
\* digits without it) and the battery the unmodified byte 19; the example
\* payload gives 0x11002300, 0x11001401, "11001650" and 90.
C7_LittleEndianLayout ==
    (/\ IsDefined(mdOut)
     /\ \A k \in 1..Len(ValueOf(mdIn)) :
            Len(ValueOf(mdIn)[k]) >= MinPayloadLen) =>
        LET md == ValueOf(mdIn)
            out == ValueOf(mdOut)
        IN  /\ ~out.threw
            /\ Len(out.value) = Len(md)
            /\ \A k \in 1..Len(md) :
                  LET p == out.value[k]
                  IN  /\ Len(p.modelId) = 10
                      /\ SubSeq(p.modelId, 1, 2) = "0x"
                      /\ IsLittleEndianHex(SubSeq(p.modelId, 3, 10), md[k], 0)
                      /\ Len(p.probeId) = 10
                      /\ SubSeq(p.probeId, 1, 2) = "0x"
                      /\ IsLittleEndianHex(SubSeq(p.probeId, 3, 10), md[k], 4)
                      /\ IsLittleEndianHex(p.probeSerialNumber, md[k], 8)
                      /\ p.batteryStateOfCharge = md[k][BatteryOffset + 1]
            /\ (md = <<ExamplePayload>> =>
                    out.value = <<[modelId |-> "0x11002300",
                                   probeId |-> "0x11001401",
                                   probeSerialNumber |-> "11001650",
                                   batteryStateOfCharge |-> 90]>>)

\* C7 witness: a payload of more than 20 bytes with the battery byte 255
\* has been decoded, and 255 is the battery value.
C7_Witness ==
    /\ IsDefined(mdOut)
    /\ ~ValueOf(mdOut).threw
    /\ Len(ValueOf(mdIn)) = 1
    /\ Len(ValueOf(mdIn)[1]) > MinPayloadLen
    /\ ValueOf(mdOut).value[1].batteryStateOfCharge = 255
    /\ ValueOf(mdOut).value[1].probeSerialNumber = "11001650"

\* C8: a payload shorter than 20 bytes makes the decoder fail without a
\* result, no record with an identity decoded from such a payload is stored,
\* and the decoder gets no byte from an offset at or beyond the length of
\* the payload.
C8_ShortPayloadFails ==
    IsDefined(mdOut) =>
        LET md == ValueOf(mdIn)
            out == ValueOf(mdOut)
        IN  /\ (\E k \in 1..Len(md) : Len(md[k]) < MinPayloadLen) =>
                    /\ out.threw
                    /\ out.value = <<>>
                    /\ devices = <<>>
            /\ \A read \in mdReads : read[2] < Len(md[read[1]])
            /\ \A i \in 1..Len(devices) :
                  \A k \in 1..Len(devices[i].parsedManufacturerData) :
                      /\ k <= Len(md)
                      /\ Len(md[k]) >= MinPayloadLen

\* C8 witness: a payload of 12 to 19 bytes, whose three identifiers are all
\* present, has been handed to the decoder, which threw; nothing was stored.
C8_Witness ==
    /\ IsDefined(mdOut)
    /\ ValueOf(mdOut).threw
    /\ Len(ValueOf(mdIn)) = 1
    /\ Len(ValueOf(mdIn)[1]) = BatteryOffset
    /\ Cardinality(mdReads) = 12
    /\ devices = <<>>

----------------------------------------------------------------------------
(* Properties of the device list, under Spec.                              *)

\* Indices of the records of a list with the given id.
IndicesOf(list, deviceId) ==
    {i \in 1..Len(list) : list[i].deviceId = deviceId}

\* The description stored for an id, if any.
StoredDescription(descriptions, deviceId) ==
    IF deviceId \in DOMAIN descriptions
    THEN Some(descriptions[deviceId].description)
    ELSE None

\* Every view of the manufacturer data has the 20 bytes the decoder reads.
Decodable(manufacturerData) ==
    \A k \in 1..Len(manufacturerData) :
        Len(manufacturerData[k]) >= MinPayloadLen

\* This step hands a scan result to handleScanResult.
HandlesStep ==
    /\ IsDefined(lastAd')
    /\ CallbackForwards(ValueOf(lastAd'))
    /\ \/ lastAd' # lastAd
       \/ repeated' /\ ~repeated

\* C1: the device list never holds two records with the same deviceId.
C1_NoDuplicateIds ==
    \A i, j \in 1..Len(devices) :
        devices[i].deviceId = devices[j].deviceId => i = j

\* C1 witness: every probe is listed, and the last scan result repeated the
\* one before it, for a probe that is listed.
C1_Witness ==
    /\ Len(devices) = NumDevices
    /\ repeated
    /\ IndicesOf(devices, ValueOf(lastAd).deviceId) # {}

\* C2 as stated, for the probe of the last scan result handed to
\* handleScanResult: the stored rssi is the rssi of that result, the stored
\* description is its classification, and the stored parsed data is the
\* decoding of its manufacturer data when that decodes.
C2_LastWriteWins ==
    (IsDefined(lastAd) /\ CallbackForwards(ValueOf(lastAd))) =>
        LET ad == ValueOf(lastAd)
        IN  \A i \in IndicesOf(devices, ad.deviceId) :
                /\ devices[i].rssi = ValueOf(ad.rssi)
                /\ StoredDescription(rssiDescriptions, ad.deviceId)
                     = Some(BandLabel(ValueOf(ad.rssi)))
                /\ Decodable(ValueOf(ad.manufacturerData)) =>
                     devices[i].parsedManufacturerData
                       = parseManufacturerData(
                            ValueOf(ad.manufacturerData)).value

\* The ids of a list, in order.
IdsOf(list) == [i \in 1..Len(list) |-> list[i].deviceId]

\* C3 as stated: a scan result handed to handleScanResult for a listed id
\* keeps the length and every position and changes no other record; one for
\* a new id appends exactly one record, for that id, at the end.
C3_StableInsertionOrder ==
    [][HandlesStep =>
        LET ad == ValueOf(lastAd')
            n == Len(devices)
        IN  IF IndicesOf(devices, ad.deviceId) # {}
            THEN /\ IdsOf(devices') = IdsOf(devices)
                 /\ \A i \in 1..n :
                       devices[i].deviceId # ad.deviceId =>
                           devices'[i] = devices[i]
            ELSE /\ Len(devices') = n + 1
                 /\ SubSeq(devices', 1, n) = devices
                 /\ devices'[n + 1].deviceId = ad.deviceId]_vars

\* The list holds d1 at one reading and d2 at another.
ListedAt(list, rssi1, rssi2) ==
    /\ \E i \in IndicesOf(list, "d1") : list[i].rssi = rssi1
    /\ \E i \in IndicesOf(list, "d2") : list[i].rssi = rssi2

\* The records of an id in a list.
RecordsOf(list, deviceId) == {list[i] : i \in IndicesOf(list, deviceId)}

\* This step delivers an advertisement from deviceId at rssi.
Delivers(deviceId, rssi) ==
    /\ IsDefined(lastAd')
    /\ ValueOf(lastAd').deviceId = deviceId
    /\ ValueOf(lastAd').rssi = Some(rssi)

\* The advertisement this step delivers carries manufacturer data that
\* decodes.
DeliversDecodable ==
    /\ IsDefined(lastAd')
    /\ IsDefined(ValueOf(lastAd').manufacturerData)
    /\ Decodable(ValueOf(ValueOf(lastAd').manufacturerData))

\* The end-to-end scenario with the given labels, stage by stage.  On an
\* empty list an advertisement from d1 at -58 lists d1 at -58 as VERY CLOSE.
\* With that list an advertisement from d2 at -82 makes the list hold both,
\* d1 VERY CLOSE and d2 label2.  With that list an advertisement from d1 at
\* -91 makes d1 label1 at -91 and leaves the record and the description of
\* d2 as they were.  With decodableOnly the stages are those of the
\* advertisements whose manufacturer data decodes.
Scenario(label2, label1, decodableOnly) ==
    LET counts == ~decodableOnly \/ DeliversDecodable
    IN  /\ (/\ devices = <<>>
            /\ Delivers("d1", -58)
            /\ counts) =>
              /\ IdsOf(devices') = <<"d1">>
              /\ devices'[1].rssi = -58
              /\ StoredDescription(rssiDescriptions', "d1")
                   = Some("VERY CLOSE")
        /\ (/\ IdsOf(devices) = <<"d1">>
            /\ devices[1].rssi = -58
            /\ Delivers("d2", -82)
            /\ counts) =>
              /\ IdsOf(devices') = <<"d1", "d2">>
              /\ ListedAt(devices', -58, -82)
              /\ StoredDescription(rssiDescriptions', "d1")
                   = Some("VERY CLOSE")
              /\ StoredDescription(rssiDescriptions', "d2") = Some(label2)
        /\ (/\ IdsOf(devices) = <<"d1", "d2">>
            /\ ListedAt(devices, -58, -82)
            /\ Delivers("d1", -91)
            /\ counts) =>
              /\ IdsOf(devices') = <<"d1", "d2">>
              /\ ListedAt(devices', -91, -82)
              /\ StoredDescription(rssiDescriptions', "d1") = Some(label1)
              /\ RecordsOf(devices', "d2") = RecordsOf(devices, "d2")
              /\ StoredDescription(rssiDescriptions', "d2")
                   = StoredDescription(rssiDescriptions, "d2")

\* C4 as stated, for every advertisement at the readings of the scenario:
\* the list holds both, d2 at -82 is FAR, and d1 at -91 becomes VERY FAR
\* while d2 is unchanged.
C4_ScenarioAsStated == [][Scenario("FAR", "VERY FAR", FALSE)]_vars

\* The scenario with the labels the threshold table gives to -82 and -91,
\* for every advertisement at the readings of the scenario.
C4_ScenarioTableLabels == [][Scenario("VERY FAR", "Unknown", FALSE)]_vars

\* The scenario with the labels of the threshold table, for the
\* advertisements whose manufacturer data decodes.
C4_ScenarioDecodable == [][Scenario("VERY FAR", "Unknown", TRUE)]_vars

\* The three stages of the scenario have run on decodable advertisements:
\* d1 and d2 are listed in that order, d1 at -91 after the last
\* advertisement and d2 at -82.
C4_ScenarioRan ==
    /\ IsDefined(lastAd)
    /\ ValueOf(lastAd).deviceId = "d1"
    /\ ValueOf(lastAd).rssi = Some(-91)
    /\ IdsOf(devices) = <<"d1", "d2">>
    /\ ListedAt(devices, -91, -82)

\* C9: when a scan result whose payload fails to decode arrives for an id
\* listed with a decoded identity, the record stays where it is with exactly
\* the identity it had.
C9_DecodeFailureKeepsIdentity ==
    [][(/\ IsDefined(lastAd')
        /\ CallbackForwards(ValueOf(lastAd'))
        /\ ~Decodable(ValueOf(ValueOf(lastAd').manufacturerData))) =>
        \A i \in IndicesOf(devices, ValueOf(lastAd').deviceId) :
            Len(devices[i].parsedManufacturerData) > 0 =>
                /\ i <= Len(devices')
                /\ devices'[i].deviceId = devices[i].deviceId
                /\ devices'[i].parsedManufacturerData
                     = devices[i].parsedManufacturerData]_vars

\* C9 witness: the last scan result carried a payload that fails to decode,
\* for a probe listed with a decoded identity.
C9_Witness ==
    /\ IsDefined(lastAd)
    /\ CallbackForwards(ValueOf(lastAd))
    /\ ~Decodable(ValueOf(ValueOf(lastAd).manufacturerData))
    /\ \E i \in IndicesOf(devices, ValueOf(lastAd).deviceId) :
          /\ Len(devices[i].parsedManufacturerData) = 1
          /\ devices[i].parsedManufacturerData[1].probeId = "0x11001401"

\* C10 as stated: when handleScanResult is handed the scan result it was
\* handed just before, the list and the descriptions stay as they are and
\* the list holds exactly one record for the id, with the rssi of the result.
C10_Idempotent ==
    [][(HandlesStep /\ repeated') =>
        LET ad == ValueOf(lastAd')
        IN  /\ devices' = devices
            /\ rssiDescriptions' = rssiDescriptions
            /\ Cardinality(IndicesOf(devices', ad.deviceId)) = 1
            /\ \A i \in IndicesOf(devices', ad.deviceId) :
                  devices'[i].rssi = ValueOf(ad.rssi)]_vars

----------------------------------------------------------------------------
(* Properties of the scan session, under SpecScan.                         *)

\* C11 as stated: the list is emptied when a scan session begins, so every
\* record of the list is of a probe that has advertised since the last
\* handleStartScan.
C11_ClearedOnStart ==
    \A i \in 1..Len(devices) : devices[i].deviceId \in advertised

\* The step is the one in which the stack replied to the call of a task.
Replied(task, ok) == lastReply' = Reply(task, ok)

\* The step calls BleClient.requestLEScan: initialize resolved in startScan.
RequestsLEScan ==
    \E fn \in {"handleStartScan", "updateRssiForAllDevices"} :
        Replied(Task(fn, NoDevice, "initialize"), TRUE)

\* C12 as stated: no scan request is issued to the stack while the scan
\* session is active, that is while isScanning is set and the stack scans;
\* the re-scan interval issues none either.
C12_NoSecondScanRequest ==
    [][RequestsLEScan => ~(isScanning /\ leScan)]_vars

\* The re-scan timers among the active timers.
RescanTimers(timers) == {t \in timers : t.fn = "updateRssiForAllDevices"}

\* C13 as stated: when handleStopScan completes, whether stopLEScan
\* resolved or rejected, isScanning is false and no re-scan timer is left.
C13_StopLeavesIdle ==
    [][(\E ok \in Outcomes :
            Replied(Task("handleStopScan", NoDevice, "stopLEScan"), ok)) =>
        /\ isScanning' = FALSE
        /\ rssiUpdateIntervalRef' = null
        /\ RescanTimers(intervals') = {}]_vars

----------------------------------------------------------------------------
(* Properties of the connections, under SpecConnection.                    *)

\* The battery timers of a device among the active timers.
PollTimers(timers, deviceId) ==
    {t \in timers : t.fn = "updateBatteryLevel" /\ t.deviceId = deviceId}

\* C14: when BleClient.connect rejects, the step that ends
\* handleConnectToDevice does not set connectedDeviceId to the device,
\* leaves connectingDeviceId null and starts no timer.
C14_ConnectFailure ==
    [][\A id \in DeviceIds :
        Replied(Task("handleConnectToDevice", id, "connect"), FALSE) =>
            /\ connectedDeviceId' = Some(id) => connectedDeviceId = Some(id)
            /\ connectingDeviceId' = null
            /\ intervals' = intervals
            /\ batteryUpdateIntervalRef' = batteryUpdateIntervalRef]_vars

\* C14 witness: with d2 connected and polled, the connect of d1 was rejected
\* last; d1 is neither the connected nor the connecting device and has no
\* battery timer.
C14_Witness ==
    /\ lastReply = Reply(Task("handleConnectToDevice", "d1", "connect"), FALSE)
    /\ connectedDeviceId = Some("d2")
    /\ connectingDeviceId = null
    /\ PollTimers(intervals, "d1") = {}
    /\ PollTimers(intervals, "d2") # {}

\* C15 as stated: when handleDisconnectFromDevice completes, whether
\* BleClient.disconnect resolved or rejected, the device is not the
\* connected one and it has no battery timer.
C15_DisconnectAlways ==
    [][\A id \in DeviceIds :
        (\E ok \in Outcomes :
            Replied(Task("handleDisconnectFromDevice", id, "disconnect"),
                    ok)) =>
            /\ connectedDeviceId' # Some(id)
            /\ PollTimers(intervals', id) = {}]_vars

\* C16 as stated: after a battery read that was rejected, the initial one
\* of handleConnectToDevice included, the device has no battery timer; and
\* a rejected read of the interval leaves connectedDeviceId as it was.
C16_PollFailureStopsTimer ==
    [][\A id \in DeviceIds :
        /\ (\E fn \in {"handleConnectToDevice", "updateBatteryLevel"} :
                Replied(Task(fn, id, "read"), FALSE)) =>
              PollTimers(intervals', id) = {}
        /\ Replied(Task("updateBatteryLevel", id, "read"), FALSE) =>
              connectedDeviceId' = connectedDeviceId]_vars

\* The step is the loss of the link of a device without a disconnect.
LinkLost(deviceId) ==
    /\ deviceId \in links
    /\ deviceId \notin links'
    /\ lastReply' = None

\* C17 as stated: when the link of a device drops, the device is not the
\* connected one any more and has no battery timer.
C17_LinkLossDisconnects ==
    [][\A id \in DeviceIds :
        LinkLost(id) =>
            /\ connectedDeviceId' # Some(id)
            /\ PollTimers(intervals', id) = {}]_vars

\* The pending tasks of a device.
TasksOf(bag, deviceId) ==
    {<<t, bag[t]>> : t \in {u \in DOMAIN bag : u.deviceId = deviceId}}

\* The step is an event of a device: a click, a timer, a reply of the stack
\* or the loss of the link, for that device.
EventOf(deviceId) ==
    \/ TasksOf(tasks', deviceId) # TasksOf(tasks, deviceId)
    \/ LinkLost(deviceId)

\* The ref holds the handle of a battery timer of the device.
RefHolds(ref, timers, deviceId) ==
    \E t \in PollTimers(timers, deviceId) : ref = Some(t.handle)

\* C18 as stated: an event of a device a leaves another device b connected
\* or connecting exactly if it was, leaves the battery timers of b as they
\* were, and leaves the ref on the timer of b if it was on it.
C18_Independent ==
    [][\A a, b \in DeviceIds :
        (a # b /\ EventOf(a)) =>
            /\ (connectedDeviceId' = Some(b)) = (connectedDeviceId = Some(b))
            /\ (connectingDeviceId' = Some(b))
                 = (connectingDeviceId = Some(b))
            /\ PollTimers(intervals', b) = PollTimers(intervals, b)
            /\ RefHolds(batteryUpdateIntervalRef, intervals, b) =>
                 batteryUpdateIntervalRef' = batteryUpdateIntervalRef]_vars

\* The step calls BleClient.write for the beep of a device.
WritesBeep(deviceId) ==
    CopiesIn(Task("handleBeep", deviceId, "write"), tasks')
        > CopiesIn(Task("handleBeep", deviceId, "write"), tasks)

\* C19 as stated: the beep is written to a device only while the device is
\* connected: it is the connected device of the page and its link is open.
C19_BeepOnlyConnected ==
    [][\A id \in DeviceIds :
        WritesBeep(id) =>
            /\ connectedDeviceId = Some(id)
            /\ id \in links]_vars

----------------------------------------------------------------------------
(* Properties of readSerialNumber, under SpecSerial.                       *)

\* The step calls BleClient.write for the command of readSerialNumber.
WritesSerialRequest(deviceId) ==
    CopiesIn(Task("readSerialNumber", deviceId, "write"), tasks')
        > CopiesIn(Task("readSerialNumber", deviceId, "write"), tasks)

\* C20 as stated: the command 0x21 is written only in the step in which the
\* subscription was established; a rejected subscription ends
\* readSerialNumber without a write; and no subscription is established for
\* a device that has one.
C20_SerialRequestOrdered ==
    [][\A id \in DeviceIds :
        LET subscribe == Task("readSerialNumber", id, "startNotifications")
        IN  /\ WritesSerialRequest(id) =>
                /\ Replied(subscribe, TRUE)
                /\ notifications'[id] >= 1
                /\ CommandOf("readSerialNumber") = 33
            /\ Replied(subscribe, FALSE) =>
                /\ ~WritesSerialRequest(id)
                /\ CopiesIn(subscribe, tasks') = CopiesIn(subscribe, tasks) - 1
            /\ Replied(subscribe, TRUE) => notifications[id] = 0]_vars

----------------------------------------------------------------------------
(* Properties of the acknowledgment decoder, under SpecAck.                *)

\* Byte at an offset of the value handed to the callback.
AckByte(offset) == ValueOf(ackIn)[offset + 1]

\* n is the little-endian unsigned 16-bit value at the offset.
IsUint16At(n, offset) == n = AckByte(offset) + 256 * AckByte(offset + 1)

\* n is the little-endian unsigned 32-bit value at the offset: it is not
\* negative, its low 24 bits are the first three bytes and the rest is the
\* fourth.
IsUint32At(n, offset) ==
    /\ n >= 0
    /\ n % 16777216 = AckByte(offset) + 256 * AckByte(offset + 1)
                      + 65536 * AckByte(offset + 2)
    /\ n \div 16777216 = AckByte(offset + 3)

\* C21 as stated: of a value the callback decodes, seqCommandNumber is the
\* unsigned 32-bit little-endian value of bytes 4-7, for every byte 7, and
\* the four 16-bit fields are the unsigned little-endian values at offsets
\* 8, 10, 12 and 14.
C21_AckFieldsUnsigned ==
    (IsDefined(ackOut) /\ ~ValueOf(ackOut).threw) =>
        LET ack == ValueOf(ValueOf(ackOut).logged)
        IN  /\ IsUint32At(ack.seqCommandNumber, 4)
            /\ IsUint16At(ack.dataByteCount, 8)
            /\ IsUint16At(ack.dataChecksum, 10)
            /\ IsUint16At(ack.headerChecksum, 12)
            /\ IsUint16At(ack.commandStatus, 14)

----------------------------------------------------------------------------
(* Properties of the notifications, under SpecSerial.                      *)

\* Length of the fixed layout of an acknowledgment.
MinAckLen == AckOffsets[Len(AckOffsets)] + 1

\* The step hands a notification value to the callback.
Notifies == ackIn' # ackIn \/ ackOut' # ackOut

\* C22 as stated: a value shorter than 16 bytes is a decode failure that
\* the callback reports instead of throwing it into the stack that called
\* it; the notification leaves the subscriptions and the links as they
\* were; and a well-formed value is decoded and logged, also after a short
\* one.
C22_ShortNotificationReported ==
    [][Notifies =>
        LET value == ValueOf(ackIn')
            outcome == ValueOf(ackOut')
        IN  /\ notifications' = notifications
            /\ links' = links
            /\ ~outcome.threw
            /\ IsDefined(outcome.logged) = (Len(value) >= MinAckLen)]_vars

----------------------------------------------------------------------------
(* Properties of failures and of stopping, under SpecScan.                 *)

\* C23 as stated: a rejected call is not attempted again on its own and is
\* not swallowed.  After a rejected call of the periodic re-scan no re-scan
\* timer is left to repeat it; after a rejected read of the periodic poll
\* of a device no battery timer of the device is left; and a rejected
\* initial read reaches handleConnectToDevice, which then does not set the
\* device connected.
C23_FailuresSurfacedNotRetried ==
    [][/\ \A pc \in {"initialize", "requestLEScan"} :
            Replied(Task("updateRssiForAllDevices", NoDevice, pc), FALSE) =>
                RescanTimers(intervals') = {}
       /\ \A id \in DeviceIds :
            /\ Replied(Task("updateBatteryLevel", id, "read"), FALSE) =>
                  PollTimers(intervals', id) = {}
            /\ Replied(Task("handleConnectToDevice", id, "read"), FALSE) =>
                  (connectedDeviceId' = Some(id) =>
                      connectedDeviceId = Some(id))]_vars

\* C27 as stated: from a successful stop until the next handleStartScan
\* the stack does not scan and requestLEScan is not called, whatever
\* handleStartScan or re-scan was awaiting the stack at the stop.
C27_StoppedStaysStopped ==
    [][/\ stopped' => ~leScan'
       /\ stopped => ~RequestsLEScan]_vars

\* C28 as stated: a re-scan timer is active only while isScanning is true,
\* and there is at most one.
C28_RescanTimerOnlyWhileScanning ==
    /\ RescanTimers(intervals) # {} => isScanning
    /\ Cardinality(RescanTimers(intervals)) <= 1

----------------------------------------------------------------------------
(* Properties of formatBleDevice, under SpecCodec.                         *)

\* C24 as stated: the page renders formatBleDevice(device) for every record
\* of the list.  It is never an error, also for a record without a parsed
\* entry, and a probe id outside the table renders as "Unknown Probe",
\* followed by the serial number.
C24_FormatNeverFails ==
    \A i \in 1..Len(devices) :
        LET device == devices[i]
            text == formatBleDevice(device)
        IN  /\ ~text.threw
            /\ (/\ Len(device.parsedManufacturerData) > 0
                /\ device.parsedManufacturerData[1].probeId
                      \notin DOMAIN probeIdToNameMap) =>
                  text.value =
                      "Probe: Unknown Probe "
                      \o device.parsedManufacturerData[1].probeSerialNumber

----------------------------------------------------------------------------
(* Properties of the device list and decode failures, under Spec.          *)

\* C25 as stated: a scan result handed to handleScanResult for a listed id
\* sets the rssi of its record and its description, in place, whether or
\* not the payload decodes; a payload that fails to decode only leaves
\* parsedManufacturerData as it was.
C25_RssiUpdatedOnDecodeFailure ==
    [][HandlesStep =>
        LET ad == ValueOf(lastAd')
        IN  \A i \in IndicesOf(devices, ad.deviceId) :
                /\ i <= Len(devices')
                /\ devices'[i].deviceId = ad.deviceId
                /\ devices'[i].rssi = ValueOf(ad.rssi)
                /\ StoredDescription(rssiDescriptions', ad.deviceId)
                     = Some(BandLabel(ValueOf(ad.rssi)))
                /\ ~Decodable(ValueOf(ad.manufacturerData)) =>
                     devices'[i].parsedManufacturerData
                       = devices[i].parsedManufacturerData]_vars

----------------------------------------------------------------------------
(* Properties of connecting, under SpecConnectionFair.                     *)

\* The step ends a handleConnectToDevice of the device: fewer of its calls
\* are pending after it.
EndsConnect(deviceId) ==
    ConnectsPending([t \in {u \in DOMAIN tasks' : u.deviceId = deviceId}
                        |-> tasks'[t]])
      < ConnectsPending([t \in {u \in DOMAIN tasks : u.deviceId = deviceId}
                            |-> tasks[t]])

\* C26: a device shown as connecting is in the end not shown as connecting:
\* connectingDeviceId is null again.  The step that ends a
\* handleConnectToDevice leaves connectingDeviceId null, and a device
\* becomes the connected one only in the step that ends a call which got
\* past BleClient.connect, at the reply to its battery read.
C26_ConnectingIsTransient ==
    /\ \A id \in Probes :
          (connectingDeviceId = Some(id)) ~> (connectingDeviceId = null)
    /\ [][\A id \in Probes :
            /\ EndsConnect(id) => connectingDeviceId' = null
            /\ (connectedDeviceId' = Some(id)
                  /\ connectedDeviceId # Some(id)) =>
                  /\ EndsConnect(id)
                  /\ \E ok \in Outcomes :
                        Replied(Task("handleConnectToDevice", id, "read"),
                                ok)]_vars

\* C26 witness: the Connect of d1 opened the link and ended at a rejected
\* getServices; no device is connecting or connected.
C26_Witness ==
    /\ lastReply = Reply(Task("handleConnectToDevice", "d1", "getServices"),
                         FALSE)
    /\ "d1" \in links
    /\ connectingDeviceId = null
    /\ connectedDeviceId = null
    /\ tasks = EmptyBag

----------------------------------------------------------------------------
(* Properties of the tracked connection, under SpecConnection.             *)

\* A Connect or a Disconnect is in progress.
ConnectOrDisconnectPending ==
    \E t \in DOMAIN tasks :
        /\ tasks[t] > 0
        /\ t.fn \in {"handleConnectToDevice", "handleDisconnectFromDevice"}

\* C29 as stated: while no Connect and no Disconnect is in progress, the
\* stack holds an open link to a device exactly if the device is
\* connectedDeviceId, so at most one link is open.
C29_TrackedAgreesWithTransport ==
    ~ConnectOrDisconnectPending =>
        /\ \A id \in DeviceIds :
              (id \in links) <=> (connectedDeviceId = Some(id))
        /\ Cardinality(links) <= 1

----------------------------------------------------------------------------
(* Properties of the teardown, under SpecTeardown.                         *)

\* The step is the unmount of the component.
Unmounts == mounted /\ ~mounted'

\* A call of BleClient.stopLEScan is in progress.
StopPending(bag) ==
    \E t \in DOMAIN bag : bag[t] > 0 /\ t.pc = "stopLEScan"

\* C30 as stated: when the component unmounts while the scan is active,
\* the cleanup stops the scan on the stack, or has called stopLEScan, and
\* it leaves no timer: neither a re-scan timer nor a battery timer.
C30_TeardownStopsAll ==
    [][(Unmounts /\ isScanning /\ leScan) =>
        /\ ~leScan' \/ StopPending(tasks')
        /\ intervals' = {}]_vars

====
